---- MODULE Spec2Model ----
(***************************************************************************)
(* A model of cigar-utils: the CIGAR decoder (CigarIterator), the          *)
(* Augmenter (AugmentedCigarIterator) and the Collator                     *)
(* (CollatedAugmentedCigarIterator).                                       *)
(*                                                                         *)
(* A CIGAR string is a sequence of one-character strings.  The Collator's  *)
(* BinaryHeap is a bag of records; where the heap's order leaves the top   *)
(* element undetermined (records that compare Equal under Ord), peek and   *)
(* pop may return any of the minimal records.                              *)
(***************************************************************************)
EXTENDS Integers, Sequences, FiniteSets, Bags, TLC

\* ------------------------------------------------------------- bounds
\* The longest external source, in items.
MaxItems == 3
\* The number of decode errors next() returns, per behaviour.
MaxDecodeErrors == 2

\* ------------------------------------------------------------- lib.rs
\* CigarOp, in declaration order.
CigarOps ==
  <<"Match", "Insertion", "Deletion", "Skip", "SoftClip", "HardClip",
    "Padding", "Equal", "Diff">>

\* derive(PartialOrd, Ord) on CigarOp: the index of the variant.
OpRank(op) == CHOOSE i \in 1..Len(CigarOps) : CigarOps[i] = op

\* derive(PartialOrd, Ord) on CigarOp: cmp(a, b).
OpCmp(a, b) ==
  IF OpRank(a) < OpRank(b) THEN "Less"
  ELSE IF OpRank(a) > OpRank(b) THEN "Greater" ELSE "Equal"

\* From<CigarOp> for u8 with the codes of HardClip and Padding exchanged.
U8FromExchanged(op) ==
  CASE op = "Match" -> 0 [] op = "Insertion" -> 1 [] op = "Deletion" -> 2
    [] op = "Skip" -> 3 [] op = "SoftClip" -> 4 [] op = "HardClip" -> 6
    [] op = "Padding" -> 5 [] op = "Equal" -> 7 [] op = "Diff" -> 8

\* From<CigarOp> for u8
U8From(op) ==
  CASE op = "Match" -> 0 [] op = "Insertion" -> 1 [] op = "Deletion" -> 2
    [] op = "Skip" -> 3 [] op = "SoftClip" -> 4 [] op = "HardClip" -> 5
    [] op = "Padding" -> 6 [] op = "Equal" -> 7 [] op = "Diff" -> 8

\* TryFrom<u8> for CigarOp: Ok(op) or Err(value).
TryOk(op) == [tag |-> "Ok", op |-> op, value |-> 0]
TryErr(value) == [tag |-> "Err", op |-> "", value |-> value]
TryFromU8(value) ==
  CASE value = 0 -> TryOk("Match") [] value = 1 -> TryOk("Insertion")
    [] value = 2 -> TryOk("Deletion") [] value = 3 -> TryOk("Skip")
    [] value = 4 -> TryOk("SoftClip") [] value = 5 -> TryOk("HardClip")
    [] value = 6 -> TryOk("Padding") [] value = 7 -> TryOk("Equal")
    [] value = 8 -> TryOk("Diff") [] OTHER -> TryErr(value)

Digits == <<"0", "1", "2", "3", "4", "5", "6", "7", "8", "9">>

IsDigit(c) == \E i \in 1..Len(Digits) : Digits[i] = c

\* c as u32 - '0' as u32
DigitValue(c) == (CHOOSE i \in 1..Len(Digits) : Digits[i] = c) - 1

\* The operation letters of CigarIterator::next's second match.
OpLetters ==
  [M |-> "Match", I |-> "Insertion", D |-> "Deletion", N |-> "Skip",
   S |-> "SoftClip", H |-> "HardClip", P |-> "Padding"]

IsOpLetter(c) == c \in DOMAIN OpLetters \/ c = "=" \/ c = "X"

\* OpOfLetter with the kinds of = and X exchanged.
OpOfLetterExchanged(c) ==
  IF c = "=" THEN "Diff" ELSE IF c = "X" THEN "Equal" ELSE OpLetters[c]

OpOfLetter(c) ==
  IF c = "=" THEN "Equal" ELSE IF c = "X" THEN "Diff" ELSE OpLetters[c]

\* Display for CigarOp with the characters of Equal and Diff exchanged.
OpCharExchanged(op) ==
  CASE op = "Match" -> "M" [] op = "Insertion" -> "I" [] op = "Deletion" -> "D"
    [] op = "Skip" -> "N" [] op = "SoftClip" -> "S" [] op = "HardClip" -> "H"
    [] op = "Padding" -> "P" [] op = "Equal" -> "X" [] op = "Diff" -> "="

\* Display for CigarOp: the character of the operation.
OpChar(op) ==
  CASE op = "Match" -> "M" [] op = "Insertion" -> "I" [] op = "Deletion" -> "D"
    [] op = "Skip" -> "N" [] op = "SoftClip" -> "S" [] op = "HardClip" -> "H"
    [] op = "Padding" -> "P" [] op = "Equal" -> "=" [] op = "Diff" -> "X"

\* Display for u32: the decimal digits of n, without leading zeros.
RECURSIVE DisplayU32(_)
DisplayU32(n) ==
  IF n < 10 THEN <<Digits[n + 1]>>
  ELSE DisplayU32(n \div 10) \o <<Digits[(n % 10) + 1]>>

\* Display for CigarElement: write!(f, "{}{}", self.length, self.op)
DisplayElement(e) == DisplayU32(e.length) \o <<OpChar(e.op)>>

\* CigarElement::cigar_string
RECURSIVE cigar_string(_)
cigar_string(elements) ==
  IF elements = <<>> THEN <<>>
  ELSE DisplayElement(Head(elements)) \o cigar_string(Tail(elements))

\* Results of the decoder: tag "Ok" carries length and op, tag "Err" carries
\* kind, and the offending character ch or the length seen.
TokOk(length, op) ==
  [tag |-> "Ok", length |-> length, op |-> op, kind |-> "", ch |-> ""]
TokErr(kind, ch, length) ==
  [tag |-> "Err", length |-> length, op |-> "", kind |-> kind, ch |-> ch]
TokNone == [tag |-> "None", length |-> 0, op |-> "", kind |-> "", ch |-> ""]

\* ScanToken with errors that leave no character to read.
RECURSIVE ScanTokenAborts(_, _, _)
ScanTokenAborts(chars, digit_count, length) ==
  IF chars = <<>>
  THEN [item |-> IF digit_count > 0
                 THEN TokErr("MissingOperation", "", length)
                 ELSE TokNone,
        rest |-> <<>>]
  ELSE LET c == Head(chars) IN
       IF IsDigit(c)
       THEN ScanTokenAborts(Tail(chars), digit_count + 1,
                            length * 10 + DigitValue(c))
       ELSE IF digit_count = 0
       THEN [item |-> TokErr("MissingCount", c, 0), rest |-> <<>>]
       ELSE IF IsOpLetter(c)
       THEN [item |-> TokOk(length, OpOfLetter(c)), rest |-> Tail(chars)]
       ELSE [item |-> TokErr("InvalidCharacter", c, 0), rest |-> <<>>]

\* ScanToken with an InvalidCharacter error that leaves the offending
\* character to be read again.
RECURSIVE ScanTokenLeavesCharacter(_, _, _)
ScanTokenLeavesCharacter(chars, digit_count, length) ==
  IF chars = <<>>
  THEN [item |-> IF digit_count > 0
                 THEN TokErr("MissingOperation", "", length)
                 ELSE TokNone,
        rest |-> <<>>]
  ELSE LET c == Head(chars) IN
       IF IsDigit(c)
       THEN ScanTokenLeavesCharacter(Tail(chars), digit_count + 1,
                                     length * 10 + DigitValue(c))
       ELSE IF digit_count = 0
       THEN [item |-> TokErr("MissingCount", c, 0), rest |-> Tail(chars)]
       ELSE IF IsOpLetter(c)
       THEN [item |-> TokOk(length, OpOfLetter(c)), rest |-> Tail(chars)]
       ELSE [item |-> TokErr("InvalidCharacter", c, 0), rest |-> chars]

\* CigarIterator::next, from the while loop on: chars is what self.chars still
\* holds.  The result is the item and the characters left.
RECURSIVE ScanToken(_, _, _)
ScanToken(chars, digit_count, length) ==
  IF chars = <<>>
  THEN [item |-> IF digit_count > 0
                 THEN TokErr("MissingOperation", "", length)
                 ELSE TokNone,
        rest |-> <<>>]
  ELSE LET c == Head(chars) IN
       IF IsDigit(c)
       THEN ScanToken(Tail(chars), digit_count + 1, length * 10 + DigitValue(c))
       ELSE IF digit_count = 0
       THEN [item |-> TokErr("MissingCount", c, 0), rest |-> Tail(chars)]
       ELSE IF IsOpLetter(c)
       THEN [item |-> TokOk(length, OpOfLetter(c)), rest |-> Tail(chars)]
       ELSE [item |-> TokErr("InvalidCharacter", c, 0), rest |-> Tail(chars)]

CigarNext(chars) == ScanToken(chars, 0, 0)

\* The items a CigarIterator over chars yields until it returns None
\* (iter.collect()).
RECURSIVE CigarCollect(_)
CigarCollect(chars) ==
  LET r == CigarNext(chars) IN
  IF r.item.tag = "None" THEN <<>> ELSE <<r.item>> \o CigarCollect(r.rest)

\* ---------------------------------------------------- augmented_cigar.rs
\* AugmentedCigarElement.  chrom_id is the field collated.rs reads
\* (elem.chrom_id); it is set from the anchor and never changes.
Elem(length, op, read_position, reference_position, chrom_id) ==
  [length |-> length, op |-> op, read_position |-> read_position,
   reference_position |-> reference_position, chrom_id |-> chrom_id]

\* Cmp without the final comparison of length.
CmpNoLength(self, other) ==
  IF self.reference_position < other.reference_position THEN "Less"
  ELSE IF self.reference_position > other.reference_position THEN "Greater"
  ELSE IF OpRank(self.op) < OpRank(other.op) THEN "Less"
  ELSE IF OpRank(self.op) > OpRank(other.op) THEN "Greater"
  ELSE "Equal"

\* Cmp with the outcome of the reference_position comparison reversed.
CmpPositionReversed(self, other) ==
  IF self.reference_position < other.reference_position THEN "Greater"
  ELSE IF self.reference_position > other.reference_position THEN "Less"
  ELSE IF OpRank(self.op) < OpRank(other.op) THEN "Less"
  ELSE IF OpRank(self.op) > OpRank(other.op) THEN "Greater"
  ELSE IF self.length < other.length THEN "Less"
  ELSE IF self.length > other.length THEN "Greater"
  ELSE "Equal"

\* Cmp with length compared before op.
CmpLengthBeforeOp(self, other) ==
  IF self.reference_position < other.reference_position THEN "Less"
  ELSE IF self.reference_position > other.reference_position THEN "Greater"
  ELSE IF self.length < other.length THEN "Less"
  ELSE IF self.length > other.length THEN "Greater"
  ELSE IF OpRank(self.op) < OpRank(other.op) THEN "Less"
  ELSE IF OpRank(self.op) > OpRank(other.op) THEN "Greater"
  ELSE "Equal"

\* impl Ord for AugmentedCigarElement: cmp(self, other).
Cmp(self, other) ==
  IF self.reference_position < other.reference_position THEN "Less"
  ELSE IF self.reference_position > other.reference_position THEN "Greater"
  ELSE IF OpRank(self.op) < OpRank(other.op) THEN "Less"
  ELSE IF OpRank(self.op) > OpRank(other.op) THEN "Greater"
  ELSE IF self.length < other.length THEN "Less"
  ELSE IF self.length > other.length THEN "Greater"
  ELSE "Equal"

\* An equality that leaves op out.
ElemEqNoOp(a, b) ==
  /\ a.length = b.length
  /\ a.read_position = b.read_position
  /\ a.reference_position = b.reference_position
  /\ a.chrom_id = b.chrom_id

\* derive(PartialEq, Eq) on AugmentedCigarElement: every field is compared.
ElemEq(a, b) ==
  /\ a.length = b.length
  /\ a.op = b.op
  /\ a.read_position = b.read_position
  /\ a.reference_position = b.reference_position
  /\ a.chrom_id = b.chrom_id

\* AugmentedCigarIterator::from((cigar_str, chrom_id, reference_position)).
AugFrom(cigar_str, chrom_id, reference_position) ==
  [chars |-> cigar_str, read_position |-> 0,
   reference_position |-> reference_position, chrom_id |-> chrom_id]

\* AdvancesRead with HardClip left out.
AdvancesReadNoHardClip(op) ==
  op \in {"Match", "Insertion", "SoftClip", "Padding", "Equal", "Diff"}

\* The consumption rule of AugmentedCigarIterator::next's match on op.
AdvancesRead(op) ==
  op \in {"Match", "Insertion", "SoftClip", "HardClip", "Padding", "Equal", "Diff"}
AdvancesReference(op) ==
  op \in {"Match", "Deletion", "Skip", "Equal", "Diff"}

AugOk(e) == [tag |-> "Ok", elem |-> e, kind |-> "", ch |-> "", length |-> 0]
AugErr(t) ==
  [tag |-> "Err", elem |-> Elem(0, "Match", 0, 0, 0), kind |-> t.kind,
   ch |-> t.ch, length |-> t.length]
AugNone ==
  [tag |-> "None", elem |-> Elem(0, "Match", 0, 0, 0), kind |-> "", ch |-> "",
   length |-> 0]

\* AugNext with an Err arm that moves the read cursor on by one.
AugNextErrorAdvances(it) ==
  LET inner == CigarNext(it.chars)
      t == inner.item
  IN  IF t.tag = "None"
      THEN [item |-> AugNone, it |-> [it EXCEPT !.chars = inner.rest]]
      ELSE IF t.tag = "Err"
      THEN [item |-> AugErr(t),
            it |-> [it EXCEPT !.chars = inner.rest, !.read_position = @ + 1]]
      ELSE [item |-> AugOk(Elem(t.length, t.op, it.read_position,
                               it.reference_position, it.chrom_id)),
            it |-> [it EXCEPT
                      !.chars = inner.rest,
                      !.read_position =
                        IF AdvancesRead(t.op) THEN @ + t.length ELSE @,
                      !.reference_position =
                        IF AdvancesReference(t.op) THEN @ + t.length ELSE @]]

\* AugNext building the record after the cursors have advanced.
AugNextRecordAfterAdvance(it) ==
  LET inner == CigarNext(it.chars)
      t == inner.item
      read == IF AdvancesRead(t.op) THEN it.read_position + t.length
              ELSE it.read_position
      ref == IF AdvancesReference(t.op) THEN it.reference_position + t.length
             ELSE it.reference_position
  IN  IF t.tag = "None"
      THEN [item |-> AugNone, it |-> [it EXCEPT !.chars = inner.rest]]
      ELSE IF t.tag = "Err"
      THEN [item |-> AugErr(t), it |-> [it EXCEPT !.chars = inner.rest]]
      ELSE [item |-> AugOk(Elem(t.length, t.op, read, ref, it.chrom_id)),
            it |-> [it EXCEPT !.chars = inner.rest, !.read_position = read,
                              !.reference_position = ref]]

\* AugmentedCigarIterator::next: the item and the iterator after the call.
AugNext(it) ==
  LET inner == CigarNext(it.chars)
      t == inner.item
  IN  IF t.tag = "None"
      THEN [item |-> AugNone, it |-> [it EXCEPT !.chars = inner.rest]]
      ELSE IF t.tag = "Err"
      THEN [item |-> AugErr(t), it |-> [it EXCEPT !.chars = inner.rest]]
      ELSE [item |-> AugOk(Elem(t.length, t.op, it.read_position,
                               it.reference_position, it.chrom_id)),
            it |-> [it EXCEPT
                      !.chars = inner.rest,
                      !.read_position =
                        IF AdvancesRead(t.op) THEN @ + t.length ELSE @,
                      !.reference_position =
                        IF AdvancesReference(t.op) THEN @ + t.length ELSE @]]

\* The items an Augmenter yields until it returns None (iter.collect()).
RECURSIVE AugCollect(_)
AugCollect(it) ==
  LET r == AugNext(it) IN
  IF r.item.tag = "None" THEN <<>> ELSE <<r.item>> \o AugCollect(r.it)

\* ------------------------------------------------------------ collated.rs
\* The CIGAR strings the external source draws from: plain matches, a
\* soft-clipped match (its Match record starts at read position 1), and
\* strings that fail to decode (at a later token, at the first token).
MatchCigars ==
  { <<"1", "M">>,
    <<"1", "M", "2", "M">> }
ClippedCigars ==
  { <<"1", "S", "1", "M">> }
GoodCigars == MatchCigars \cup ClippedCigars
BadCigars ==
  { <<"1", "M", "1", "Z">>,
    <<"Z">> }

\* The chromosome ids and the anchor reference positions of the source items.
ChromIds == {1, 2}
Anchors == {0, 1}

\* An item of the external source: Ok((cigar, chrom_id, reference_position))
\* or Err(e).
SrcOk(cigar, chrom_id, reference_position) ==
  [tag |-> "Ok", cigar |-> cigar, chrom_id |-> chrom_id,
   reference_position |-> reference_position]
SrcErr == [tag |-> "Err", cigar |-> <<>>, chrom_id |-> 0, reference_position |-> 0]

\* The items a source is made of: the match strings at every anchor of every
\* chromosome, the clipped ones at every anchor of chromosome 1, the failing
\* ones at one anchor, and Err.
SourceItems ==
  { SrcOk(c, ch, p) : c \in MatchCigars, ch \in ChromIds, p \in Anchors }
    \cup { SrcOk(c, 1, p) : c \in ClippedCigars, p \in Anchors }
    \cup { SrcOk(c, 1, 0) : c \in BadCigars }
    \cup {SrcErr}

Sources == UNION { [1..n -> SourceItems] : n \in 0..MaxItems }

VARIABLES
  input,    \* the external source, as constructed (never changes)
  cursor,   \* the number of items self.source has given out through next()
  queue,    \* self.queue: the bag of records in the BinaryHeap
  output,   \* the Some(..) items next() has returned so far, in order
  last      \* what the latest call of next() returned

vars == <<input, cursor, queue, output, last>>

\* The state of the other components, each run on its own: a CigarIterator,
\* an AugmentedCigarIterator, and one call of expand_cigar_operations.
VARIABLES
  cigar,    \* the string CigarIterator::new was given
  chars,    \* CigarIterator.chars: the characters not yet read
  tokens,   \* the Some(..) items CigarIterator::next has returned, in order
  anchor,   \* what AugmentedCigarIterator::from was given
  aug,      \* the AugmentedCigarIterator
  records,  \* the Some(..) items AugmentedCigarIterator::next has returned
  args,     \* the arguments of expand_cigar_operations
  expanded, \* what expand_cigar_operations returned
  operand,  \* two operation kinds and a byte, to be converted
  converted \* what the comparison and the conversions of them gave

decoderVars == <<cigar, chars, tokens>>
augmenterVars == <<anchor, aug, records>>
expandVars == <<args, expanded>>
conversionVars == <<operand, converted>>

\* A component that takes no part in a behaviour keeps these values.
DecoderUnused == cigar = <<>> /\ chars = <<>> /\ tokens = <<>>
AugmenterUnused == anchor = <<>> /\ aug = <<>> /\ records = <<>>
ExpandUnused == args = <<>> /\ expanded = <<>>
ConversionUnused == operand = <<>> /\ converted = <<>>

\* What next() returns.  item is the 1-based index of the source item an
\* error came from (kept for the record, not part of CigarError).
NoElem == Elem(0, "Match", 0, 0, 0)
RetOk(e, count) ==
  [tag |-> "Ok", elem |-> e, count |-> count, kind |-> "", ch |-> "", item |-> 0]
RetErr(kind, ch, item) ==
  [tag |-> "Err", elem |-> NoElem, count |-> 0, kind |-> kind, ch |-> ch,
   item |-> item]
RetNone ==
  [tag |-> "None", elem |-> NoElem, count |-> 0, kind |-> "", ch |-> "", item |-> 0]
NotCalled ==
  [tag |-> "NotCalled", elem |-> NoElem, count |-> 0, kind |-> "", ch |-> "",
   item |-> 0]

\* BinaryHeap<Reverse<AugmentedCigarElement>>::peek: a record no other record
\* of the heap is Less than.
HeapTops(q) ==
  { e \in BagToSet(q) : \A f \in BagToSet(q) : Cmp(f, e) # "Less" }

HeapPush(q, e) == q (+) SetToBag({e})
HeapRemove(q, e) == q (-) SetToBag({e})

\* The admission check without the comparison of chrom_id.
AdmissionBreakNoChrom(elem, existing) ==
  elem.reference_position > existing.reference_position

\* The admission check with >= for > on reference_position: an item at the
\* position of the heap's top is left in the source.
AdmissionBreakAtEqual(elem, existing) ==
  \/ elem.chrom_id > existing.chrom_id
  \/ /\ elem.chrom_id = existing.chrom_id
     /\ elem.reference_position >= existing.reference_position

\* The admission check: the Augmenter's first item elem against the heap's
\* top existing; TRUE is the break.
AdmissionBreak(elem, existing) ==
  \/ elem.chrom_id > existing.chrom_id
  \/ /\ elem.chrom_id = existing.chrom_id
     /\ elem.reference_position > existing.reference_position

\* for elem in augmented_iter: push until the first Err.  items is what the
\* Augmenter yields; the result is the heap and the Err reached, if any.
RECURSIVE DrainInto(_, _)
DrainInto(q, items) ==
  IF items = <<>> THEN [queue |-> q, err |-> AugNone]
  ELSE IF Head(items).tag = "Err" THEN [queue |-> q, err |-> Head(items)]
  ELSE DrainInto(HeapPush(q, Head(items).elem), Tail(items))

\* The while-let loop of next(): the set of ways it can end, from cursor cur
\* and heap q over source src.  ret is the item returned from inside the loop,
\* or RetNone when the loop is left for the pop.
RECURSIVE Admit(_, _, _)
Admit(src, cur, q) ==
  IF cur >= Len(src) THEN {[cursor |-> cur, queue |-> q, ret |-> RetNone]}
  ELSE
    LET item == src[cur + 1] IN
    IF item.tag = "Err"
    THEN {[cursor |-> cur + 1, queue |-> q, ret |-> RetErr("External", "", cur + 1)]}
    ELSE
      LET items == AugCollect(AugFrom(item.cigar, item.chrom_id,
                                      item.reference_position))
          firstOk == items # <<>> /\ items[1].tag = "Ok"
          drained == DrainInto(q, items)
          go == IF drained.err.tag = "Err"
                THEN {[cursor |-> cur, queue |-> drained.queue,
                       ret |-> RetErr(drained.err.kind, drained.err.ch, cur + 1)]}
                ELSE Admit(src, cur + 1, drained.queue)
      IN  IF firstOk /\ q # EmptyBag
          THEN UNION { IF AdmissionBreak(items[1].elem, existing)
                       THEN {[cursor |-> cur, queue |-> q, ret |-> RetNone]}
                       ELSE go
                       : existing \in HeapTops(q) }
          ELSE go

\* while let Some(Reverse(next)) = self.queue.peek(): the ways the grouping of
\* elem can end, from heap q with count counted so far.
RECURSIVE Group(_, _, _)
Group(q, elem, count) ==
  IF q = EmptyBag THEN {[queue |-> q, ret |-> RetOk(elem, count)]}
  ELSE UNION { IF ElemEq(next, elem)
               THEN Group(HeapRemove(q, next), elem, count + 1)
               ELSE {[queue |-> q, ret |-> RetOk(elem, count)]}
               : next \in HeapTops(q) }

\* PopGroup that gives None for a heap of one record, leaving it there.
PopGroupEndsEarly(q) ==
  IF q = EmptyBag \/ BagCardinality(q) = 1 THEN {[queue |-> q, ret |-> RetNone]}
  ELSE UNION { Group(HeapRemove(q, elem), elem, 1) : elem \in HeapTops(q) }

\* if let Some(Reverse(elem)) = self.queue.pop() { .. } else { None }
PopGroup(q) ==
  IF q = EmptyBag THEN {[queue |-> q, ret |-> RetNone]}
  ELSE UNION { Group(HeapRemove(q, elem), elem, 1) : elem \in HeapTops(q) }

\* CollatedAugmentedCigarIterator::next: the set of (cursor, queue, ret) one
\* call can end in.
NextOutcomes(src, cur, q) ==
  UNION { IF a.ret.tag = "Err"
          THEN {a}
          ELSE { [cursor |-> a.cursor, queue |-> p.queue, ret |-> p.ret]
                 : p \in PopGroup(a.queue) }
          : a \in Admit(src, cur, q) }

\* CollatedAugmentedCigarIterator::new
Init ==
  /\ input \in Sources
  /\ cursor = 0
  /\ queue = EmptyBag
  /\ output = <<>>
  /\ last = NotCalled
  /\ DecoderUnused /\ AugmenterUnused /\ ExpandUnused /\ ConversionUnused

Returns(r) ==
  /\ cursor' = r.cursor
  /\ queue' = r.queue
  /\ last' = r.ret
  /\ output' = IF r.ret.tag = "None" THEN output ELSE Append(output, r.ret)
  /\ UNCHANGED <<input, decoderVars, augmenterVars, expandVars, conversionVars>>

\* next() returns Some(Ok((elem, count))).
NextYield(r) == r.ret.tag = "Ok" /\ Returns(r)

\* NextSourceError without self.source.next(): the cursor is where the call
\* found it.
NextSourceErrorNoAdvance(r) ==
  r.ret.tag = "Err" /\ r.ret.kind = "External"
    /\ Returns([r EXCEPT !.cursor = cursor])

\* next() returns Some(Err(CigarError::External(..))).
NextSourceError(r) == r.ret.tag = "Err" /\ r.ret.kind = "External" /\ Returns(r)

\* next() returns Some(Err(e)), e from the decoder.
NextDecodeError(r) == r.ret.tag = "Err" /\ r.ret.kind # "External" /\ Returns(r)

\* next() returns None.
NextEnd(r) == r.ret.tag = "None" /\ Returns(r)

\* The decode errors next() has returned so far.
DecodeErrors(out) ==
  { i \in 1..Len(out) : out[i].tag = "Err" /\ out[i].kind # "External" }

\* One call of next().  The calls that return a decode error are followed
\* until MaxDecodeErrors of them have been returned.
Next ==
  /\ Cardinality(DecodeErrors(output)) < MaxDecodeErrors
  /\ \E r \in NextOutcomes(input, cursor, queue) :
       \/ NextYield(r)
       \/ NextSourceError(r)
       \/ NextDecodeError(r)
       \/ NextEnd(r)

Spec == Init /\ [][Next]_vars

\* ------------------------------------------------------------ properties
\* The records a source item holds, as the Augmenter yields them.
ItemResults(item) ==
  IF item.tag = "Ok"
  THEN AugCollect(AugFrom(item.cigar, item.chrom_id, item.reference_position))
  ELSE <<>>

\* Every item of the source is Ok and decodes without error.
ErrorFree(src) ==
  \A i \in 1..Len(src) :
    /\ src[i].tag = "Ok"
    /\ LET rs == ItemResults(src[i]) IN \A j \in 1..Len(rs) : rs[j].tag = "Ok"

\* The external-source contract: within each chromosome_id the anchors are
\* non-decreasing in source order; chromosome_ids may be interleaved.
ContractSorted(src) ==
  \A i, j \in 1..Len(src) :
    (i < j /\ src[i].tag = "Ok" /\ src[j].tag = "Ok"
       /\ src[i].chrom_id = src[j].chrom_id)
      => src[i].reference_position <= src[j].reference_position

\* The source is sorted by chromosome_id, then by anchor.
FullySorted(src) ==
  \A i, j \in 1..Len(src) :
    (i < j /\ src[i].tag = "Ok" /\ src[j].tag = "Ok")
      => \/ src[i].chrom_id < src[j].chrom_id
         \/ /\ src[i].chrom_id = src[j].chrom_id
            /\ src[i].reference_position <= src[j].reference_position

\* The record total order: chromosome_id, reference_position, kind, length.
TotalLeq(a, b) ==
  \/ a.chrom_id < b.chrom_id
  \/ /\ a.chrom_id = b.chrom_id
     /\ \/ a.reference_position < b.reference_position
        \/ /\ a.reference_position = b.reference_position
           /\ \/ OpRank(a.op) < OpRank(b.op)
              \/ /\ a.op = b.op
                 /\ a.length <= b.length

\* The grouping key of a record.
KeyOf(e) == <<e.chrom_id, e.reference_position, e.op, e.length>>

\* The records of the source's items from index i on, in source order, each
\* with the index of its item.
RECURSIVE RecordsFrom(_, _)
RecordsFrom(src, i) ==
  IF i > Len(src) THEN <<>>
  ELSE LET rs == ItemResults(src[i])
           oks == SelectSeq(rs, LAMBDA r : r.tag = "Ok")
       IN  [j \in 1..Len(oks) |-> [item |-> i, elem |-> oks[j].elem]]
             \o RecordsFrom(src, i + 1)

InputRecords(src) == RecordsFrom(src, 1)

\* The number of records of recs with grouping key k, and the keys of recs.
CountIn(recs, k) == Cardinality({ i \in 1..Len(recs) : KeyOf(recs[i].elem) = k })
KeysIn(recs) == { KeyOf(recs[i].elem) : i \in 1..Len(recs) }

\* The yielded items with grouping key k, and the sum of their counts.
OutputPlaces(out, k) ==
  { i \in 1..Len(out) : out[i].tag = "Ok" /\ KeyOf(out[i].elem) = k }

RECURSIVE SumCount(_, _)
SumCount(out, k) ==
  IF out = <<>> THEN 0
  ELSE (IF Head(out).tag = "Ok" /\ KeyOf(Head(out).elem) = k
        THEN Head(out).count ELSE 0) + SumCount(Tail(out), k)

\* next() has returned None.
Drained == last.tag = "None"

\* The output is non-decreasing in the record total order.
OutputNonDecreasing ==
  \A i \in 1..(Len(output) - 1) :
    (output[i].tag = "Ok" /\ output[i + 1].tag = "Ok")
      => TotalLeq(output[i].elem, output[i + 1].elem)

\* ------------------------------------------------------------------ C1
\* C1 as claimed: for every error-free source that satisfies the
\* external-source contract (anchors non-decreasing within each chromosome_id,
\* chromosome_ids interleaved at will), the yielded records are non-decreasing
\* in the total order chromosome_id, reference_position, kind, length.
C1_AsClaimed ==
  (ContractSorted(input) /\ ErrorFree(input)) => OutputNonDecreasing

\* C1, amended: for every error-free source sorted by chromosome_id and then
\* by anchor reference_position, the yielded records are non-decreasing in the
\* total order chromosome_id, reference_position, kind, length.
C1_OutputTotalOrder ==
  (FullySorted(input) /\ ErrorFree(input)) => OutputNonDecreasing

\* A sorted error-free source over two chromosomes has been drained, and it
\* yielded records that differ in chromosome, in position and in length.
C1_Witness ==
  /\ ErrorFree(input) /\ FullySorted(input) /\ Drained
  /\ Len(output) >= 4
  /\ \E i, j \in 1..Len(output) :
       output[i].elem.chrom_id # output[j].elem.chrom_id
  /\ \E i, j \in 1..Len(output) :
       /\ output[i].elem.chrom_id = output[j].elem.chrom_id
       /\ output[i].elem.reference_position = output[j].elem.reference_position
       /\ output[i].elem.op = output[j].elem.op
       /\ output[i].elem.length < output[j].elem.length

\* ------------------------------------------------------------------ C2
\* The yielded reference positions of each chromosome_id are non-decreasing
\* across the whole output.
PositionsNonDecreasingPerChrom ==
  \A i, j \in 1..Len(output) :
    (i < j /\ output[i].tag = "Ok" /\ output[j].tag = "Ok"
       /\ output[i].elem.chrom_id = output[j].elem.chrom_id)
      => output[i].elem.reference_position <= output[j].elem.reference_position

\* C2 as claimed: for every source sorted per the external-source contract,
\* the reference_position of the yielded records of any one chromosome_id is
\* non-decreasing across the whole output.
C2_AsClaimed == ContractSorted(input) => PositionsNonDecreasingPerChrom

\* C2, amended: for every source sorted by chromosome_id and then by anchor
\* reference_position, the reference_position of the yielded records of any
\* one chromosome_id is non-decreasing across the whole output.
C2_PositionsPerChrom == FullySorted(input) => PositionsNonDecreasingPerChrom

\* A sorted source has yielded, for one chromosome, records of two items at
\* increasing positions, the later item admitted after an earlier pop.
C2_Witness ==
  /\ FullySorted(input) /\ Len(input) >= 2 /\ cursor = Len(input)
  /\ \E i, j \in 1..Len(output) :
       /\ i < j /\ output[i].tag = "Ok" /\ output[j].tag = "Ok"
       /\ output[i].elem.chrom_id = output[j].elem.chrom_id
       /\ output[i].elem.reference_position < output[j].elem.reference_position
  /\ \E i \in 1..Len(output) : output[i].tag = "Ok" /\ output[i].count >= 2

\* ------------------------------------------------------------------ C3
\* C3: for an error-free source that satisfies the external-source
\* precondition (stated here for the sources sorted by chromosome_id and then
\* by anchor, which satisfy it), once the Collator is drained every grouping
\* key (chromosome_id, reference_position, kind, length) of an input record
\* occurs in exactly one output item, whose count is the number of input
\* records with that key.
C3_OneItemPerKey ==
  (Drained /\ FullySorted(input) /\ ErrorFree(input))
    => LET recs == InputRecords(input) IN
       \A k \in KeysIn(recs) :
         /\ Cardinality(OutputPlaces(output, k)) = 1
         /\ \A i \in OutputPlaces(output, k) :
              output[i].count = CountIn(recs, k)

\* ------------------------------------------------------------------ C4
\* C4: for a source whose items are all Ok and decode without error, once the
\* Collator is drained the sum of count over the output items with a given
\* grouping key equals the number of input records with that key, and every
\* output item's key is the key of an input record.
C4_CountsAddUp ==
  (Drained /\ ErrorFree(input))
    => LET recs == InputRecords(input) IN
       /\ \A k \in KeysIn(recs) : SumCount(output, k) = CountIn(recs, k)
       /\ \A i \in 1..Len(output) :
            /\ output[i].tag = "Ok"
            /\ output[i].count >= 1
            /\ KeyOf(output[i].elem) \in KeysIn(recs)

\* An error-free source of three items has been drained; one key was yielded
\* with count 2 or more, and another key was yielded in two items.
C4_Witness ==
  /\ Drained /\ Len(input) = MaxItems /\ ErrorFree(input)
  /\ \E i \in 1..Len(output) : output[i].count >= 2
  /\ \E i, j \in 1..Len(output) :
       i # j /\ KeyOf(output[i].elem) = KeyOf(output[j].elem)

\* ------------------------------------------------------------------ C5
\* The grouping keys that records of two different source items share while
\* their read_position differs.
KeysAcrossReadPositions(recs) ==
  { k \in KeysIn(recs) :
      \E p, q \in 1..Len(recs) :
        /\ KeyOf(recs[p].elem) = k /\ KeyOf(recs[q].elem) = k
        /\ recs[p].item # recs[q].item
        /\ recs[p].elem.read_position # recs[q].elem.read_position }

\* C5: read_position is not part of the grouping key: when records of two
\* source items (of an error-free sorted source) have the same chromosome_id,
\* reference_position, kind and length and different read_position, the
\* drained Collator has yielded them in a single item that counts them all.
C5_MergedAcrossReadPosition ==
  (Drained /\ FullySorted(input) /\ ErrorFree(input))
    => LET recs == InputRecords(input) IN
       \A k \in KeysAcrossReadPositions(recs) :
         \E i \in OutputPlaces(output, k) : output[i].count = CountIn(recs, k)

\* ------------------------------------------------------------------ C6
\* Every output item of a lower chromosome_id is yielded before every output
\* item of a higher chromosome_id.
ChromosomesInOrder ==
  \A i, j \in 1..Len(output) :
    (i < j /\ output[i].tag = "Ok" /\ output[j].tag = "Ok")
      => output[i].elem.chrom_id <= output[j].elem.chrom_id

\* No item counts a record with another grouping key (another chromosome_id,
\* reference_position, kind or length): the counts yielded for a key never
\* exceed the input records with that key.
CountsWithinKey ==
  LET recs == InputRecords(input) IN
  \A i \in 1..Len(output) :
    output[i].tag = "Ok"
      => SumCount(output, KeyOf(output[i].elem))
           <= CountIn(recs, KeyOf(output[i].elem))

\* C6: for a source sorted by chromosome_id then reference_position, every
\* output item of a lower chromosome_id is yielded before every output item of
\* a higher chromosome_id, and records that differ in chromosome_id are never
\* merged into one item, even when reference_position, kind and length
\* coincide.
C6_ChromosomeCollation ==
  FullySorted(input) => (ChromosomesInOrder /\ CountsWithinKey)

\* A sorted source with the same record on both chromosomes has been drained:
\* two items, one per chromosome, that agree in position, kind and length.
C6_Witness ==
  /\ Drained /\ FullySorted(input) /\ ErrorFree(input)
  /\ \E i, j \in 1..Len(output) :
       /\ i < j
       /\ output[i].elem.chrom_id < output[j].elem.chrom_id
       /\ output[i].elem.reference_position = output[j].elem.reference_position
       /\ output[i].elem.op = output[j].elem.op
       /\ output[i].elem.length = output[j].elem.length
       /\ output[i].count >= 2

\* ------------------------------------------------------------------ C7
\* Output items i and j are at the same chromosome_id and
\* reference_position.
SamePlace(i, j) ==
  /\ output[i].tag = "Ok" /\ output[j].tag = "Ok"
  /\ output[i].elem.chrom_id = output[j].elem.chrom_id
  /\ output[i].elem.reference_position = output[j].elem.reference_position

\* Items at one place are yielded in kind declaration order and, for equal
\* kind, in non-decreasing length.
KindThenLengthOrder ==
  \A i, j \in 1..Len(output) :
    (i < j /\ SamePlace(i, j))
      => \/ OpRank(output[i].elem.op) < OpRank(output[j].elem.op)
         \/ /\ output[i].elem.op = output[j].elem.op
            /\ output[i].elem.length <= output[j].elem.length

\* C7 as claimed: (for every source within the external-source contract)
\* records at the same chromosome_id and reference_position that differ in
\* kind or in length are never grouped together, and their items are yielded
\* in kind declaration order and, for equal kind, in increasing length.
C7_AsClaimed ==
  ContractSorted(input) => (CountsWithinKey /\ KindThenLengthOrder)

\* C7, amended: the same, for a source sorted by chromosome_id and then by
\* anchor reference_position.
C7_KindsApart ==
  FullySorted(input) => (CountsWithinKey /\ KindThenLengthOrder)

\* A sorted source has been drained after yielding, at one place, items of two
\* kinds and items of one kind with two lengths.
C7_Witness ==
  /\ Drained /\ FullySorted(input) /\ ErrorFree(input)
  /\ \E i, j \in 1..Len(output) :
       /\ i < j /\ SamePlace(i, j)
       /\ output[i].elem.op # output[j].elem.op
       /\ output[i].elem.length > output[j].elem.length
  /\ \E i, j \in 1..Len(output) :
       /\ i < j /\ SamePlace(i, j)
       /\ output[i].elem.op = output[j].elem.op
       /\ output[i].elem.length < output[j].elem.length

\* ------------------------------------------------------------------ C8
\* The latest call returned a decode error.
ReportedDecodeError(r) == r.tag = "Err" /\ r.kind # "External"

\* C8: after the Collator reports a decode error for a source item, it has
\* advanced past that source item (so that later calls do not read it again).
C8_AdvancesPastDecodeError ==
  ReportedDecodeError(last) => cursor >= last.item

\* ------------------------------------------------------------------ C9
\* The records of the source items from index a to index b, as a bag.
RECURSIVE SeqToBag(_)
SeqToBag(items) ==
  IF items = <<>> THEN EmptyBag
  ELSE (IF Head(items).tag = "Ok" THEN SetToBag({Head(items).elem}) ELSE EmptyBag)
         (+) SeqToBag(Tail(items))

RECURSIVE RecordsOfItems(_, _, _)
RecordsOfItems(src, a, b) ==
  IF a > b THEN EmptyBag
  ELSE SeqToBag(ItemResults(src[a])) (+) RecordsOfItems(src, a + 1, b)

\* C9: when a source item fails to decode, at its first token or at a later
\* one, no record of it is admitted: the call that reports the error leaves
\* in the heap what was there before, and the records of the items it
\* consumed before the failing one.
C9_NothingAdmittedOnError ==
  [][ReportedDecodeError(last')
       => queue' = queue (+) RecordsOfItems(input, cursor + 1, last'.item - 1)]_vars

\* ----------------------------------------------------------------- C10
\* The error items the output holds for source item n.
ErrorsFor(n) == { i \in 1..Len(output) : output[i].tag = "Err" /\ output[i].item = n }

\* Source item n is an error: an Err of the source, or a string that fails to
\* decode.
IsErrorItem(n) ==
  \/ input[n].tag = "Err"
  \/ \E j \in 1..Len(ItemResults(input[n])) : ItemResults(input[n])[j].tag = "Err"

\* C10: every error becomes exactly one item of the output: an Err item of
\* the source, or a source item that fails to decode, once consumed has
\* produced one error item, and no source item ever has produced two.
C10_OneItemPerError ==
  \A n \in 1..Len(input) :
    /\ Cardinality(ErrorsFor(n)) <= 1
    /\ (n <= cursor /\ IsErrorItem(n)) => Cardinality(ErrorsFor(n)) = 1

\* ----------------------------------------------------------------- C11
\* The call returned the Err item of the source as an External error.
ReportedSourceError(r) == r.tag = "Err" /\ r.kind = "External"

\* The call that reaches an Err item of the source returns it as the External
\* error of that item, moves the cursor just past it, appends that one item
\* to the output and leaves in the heap what was there, together with the
\* records of the valid items the admission pass consumed on its way.
SourceErrorStep ==
  ReportedSourceError(last')
    => /\ last'.item > cursor
       /\ input[last'.item].tag = "Err"
       /\ \A n \in (cursor + 1)..(last'.item - 1) : input[n].tag = "Ok"
       /\ cursor' = last'.item
       /\ queue' = queue (+) RecordsOfItems(input, cursor + 1, last'.item - 1)
       /\ output' = Append(output, last')

\* Once next() has returned None, every record of every valid item of the
\* source has been yielded: per grouping key the counts add up.
AllRecordsYielded ==
  Drained
    => LET recs == InputRecords(input) IN
       \A k \in KeysIn(recs) : SumCount(output, k) = CountIn(recs, k)

C12_EventuallyEnds ==
  [][last'.tag # "None" => <<cursor', queue'>> # <<cursor, queue>>]_vars

\* ------------------------------------------- an Augmenter run on its own
\* The longest operation string given to an Augmenter, in pieces.
MaxTokens == 2

\* The nine operation codes.
OpCodes == {"M", "I", "D", "N", "S", "H", "P", "=", "X"}

\* The pieces the strings are made of: the well-formed tokens of length 1 and
\* 2 of every kind, and fragments that fail to decode (an unknown letter
\* without and with a count, a count without a letter, and the shape of the
\* tests' "2M1Z").
WellFormedPieces == { <<d, c>> : d \in {"1", "2"}, c \in OpCodes }
MalformedPieces == { <<"Z">>, <<"1", "Z">>, <<"2">>, <<"1", "M", "1", "Z">> }

RECURSIVE Flatten(_)
Flatten(ps) == IF ps = <<>> THEN <<>> ELSE Head(ps) \o Flatten(Tail(ps))

\* The strings of at most n pieces.
PieceStrings(pieces, n) ==
  { Flatten(ps) : ps \in UNION { [1..k -> pieces] : k \in 0..n } }

\* The anchor reference positions.
AugAnchors == {0, 5}

\* AugmentedCigarIterator::from((cigar_str, chrom_id, reference_position))
AugmenterInit ==
  /\ anchor \in { [cigar |-> c, chrom_id |-> 1, reference_position |-> p] :
                     c \in PieceStrings(WellFormedPieces \cup MalformedPieces,
                                        MaxTokens),
                     p \in AugAnchors }
  /\ aug = AugFrom(anchor.cigar, anchor.chrom_id, anchor.reference_position)
  /\ records = <<>>
  /\ input = <<>> /\ cursor = 0 /\ queue = EmptyBag /\ output = <<>>
  /\ last = NotCalled
  /\ DecoderUnused /\ ExpandUnused /\ ConversionUnused

\* One call of AugmentedCigarIterator::next.
AugmenterNext ==
  /\ LET r == AugNext(aug) IN
       /\ aug' = r.it
       /\ records' = IF r.item.tag = "None" THEN records
                     ELSE Append(records, r.item)
  /\ UNCHANGED <<anchor, vars, decoderVars, expandVars, conversionVars>>

AugmenterSpec == AugmenterInit /\ [][AugmenterNext]_augmenterVars

\* ----------------------------------------------------------------- C13
\* The consumption rule as the claim states it.
BothCursorKinds == {"Match", "Equal", "Diff"}
ReadOnlyKinds == {"Insertion", "SoftClip", "HardClip", "Padding"}
ReferenceOnlyKinds == {"Deletion", "Skip"}

\* The sum of the lengths of the Ok tokens among the first n of toks whose
\* kind is in kinds.
RECURSIVE AdvanceSum(_, _, _)
AdvanceSum(toks, n, kinds) ==
  IF n = 0 THEN 0
  ELSE (IF toks[n].tag = "Ok" /\ toks[n].op \in kinds THEN toks[n].length ELSE 0)
         + AdvanceSum(toks, n - 1, kinds)

\* C13: for any anchor and any sequence of decoded tokens, the Augmenter emits
\* one record per token, in order, with the token's length and kind and the
\* cursor values before the token is applied: read_position starts at 0 and
\* reference_position at the anchor; match, equal and mismatch advance both
\* by length; insertion, soft-clip, hard-clip and padding advance only
\* read_position; deletion and skip only reference_position.  So each
\* record's positions are the start values plus the advances of all earlier
\* tokens.
C13_PositionsAreSums ==
  LET toks == CigarCollect(anchor.cigar) IN
  /\ Len(records) <= Len(toks)
  /\ \A i \in 1..Len(records) :
       toks[i].tag = "Ok"
         => /\ records[i].tag = "Ok"
            /\ records[i].elem.length = toks[i].length
            /\ records[i].elem.op = toks[i].op
            /\ records[i].elem.read_position =
                 AdvanceSum(toks, i - 1, BothCursorKinds \cup ReadOnlyKinds)
            /\ records[i].elem.reference_position =
                 anchor.reference_position
                   + AdvanceSum(toks, i - 1, BothCursorKinds \cup ReferenceOnlyKinds)

\* An Augmenter anchored above 0 has emitted a hard-clip record and then a
\* record that starts after it in the read and at the anchor in the
\* reference.
C13_Witness ==
  /\ anchor # <<>> /\ anchor.reference_position > 0
  /\ Len(records) = 2
  /\ records[1].tag = "Ok" /\ records[1].elem.op = "HardClip"
  /\ records[2].tag = "Ok"
  /\ records[2].elem.read_position = records[1].elem.length
  /\ records[2].elem.reference_position = anchor.reference_position

\* ----------------------------------------------------------------- C14
\* A call on which the decoder fails yields the decoder's error as the next
\* item, leaves both cursors as they were and leaves the items yielded before
\* it as they were.
DecoderFailureStep ==
  LET t == CigarNext(aug.chars).item IN
  t.tag = "Err"
    => /\ records' = Append(records, AugErr(t))
       /\ aug'.read_position = aug.read_position
       /\ aug'.reference_position = aug.reference_position

\* The items yielded so far are, one for one, the decoder's items (an error
\* for an error, with its kind, character and length), and once the string
\* is used up there are as many of them as the decoder yields.
ItemsAsDecoder ==
  LET toks == CigarCollect(anchor.cigar) IN
  /\ Len(records) <= Len(toks)
  /\ \A i \in 1..Len(records) :
       /\ records[i].tag = toks[i].tag
       /\ toks[i].tag = "Err" => records[i] = AugErr(toks[i])
  /\ aug.chars = <<>> => Len(records) = Len(toks)

\* C14: when the decoder fails on a token, the Augmenter yields that error as
\* an item, leaves its read_position and reference_position cursors
\* unchanged, and the records emitted before the error are unaffected; the
\* Augmenter yields exactly as many items as the underlying decoder.
C14_ErrorLeavesCursors ==
  [][DecoderFailureStep]_augmenterVars /\ [](ItemsAsDecoder)

\* An Augmenter has yielded a record that moved both cursors, then an error,
\* then a record that starts where the first one ended.
C14_Witness ==
  /\ Len(records) = 3 /\ aug.chars = <<>>
  /\ records[1].tag = "Ok" /\ records[1].elem.op = "Match"
  /\ records[2].tag = "Err"
  /\ records[3].tag = "Ok"
  /\ records[3].elem.read_position = records[1].elem.length
  /\ records[3].elem.reference_position =
       anchor.reference_position + records[1].elem.length

\* ------------------------------------------ a CigarIterator run on its own
\* The longest string given to the decoder, in characters.
MaxChars == 4

\* The characters of those strings: three digits, four operation codes, and
\* two characters that are no operation code, a letter and another.
DecoderAlphabet == {"0", "1", "2", "M", "I", "D", "=", "Z", "?"}

\* The strings of the tests of lib.rs.
TestStrings ==
  { <<"1", "0", "M", "5", "I", "3", "D">>,
    <<"1", "M", "2", "I", "3", "D", "4", "N", "5", "S", "6", "H", "7", "P",
      "8", "=", "9", "X">>,
    <<"5", "M", "2", "Z">>,
    <<"M", "5", "I">> }

\* CigarIterator::new(cigar): every string over the alphabet, the strings of
\* pieces (every operation code), and the tests' strings.
DecoderInit ==
  /\ cigar \in UNION { [1..n -> DecoderAlphabet] : n \in 0..MaxChars }
                 \cup PieceStrings(WellFormedPieces \cup MalformedPieces, MaxTokens)
                 \cup TestStrings
  /\ chars = cigar
  /\ tokens = <<>>
  /\ input = <<>> /\ cursor = 0 /\ queue = EmptyBag /\ output = <<>>
  /\ last = NotCalled
  /\ AugmenterUnused /\ ExpandUnused /\ ConversionUnused

\* One call of CigarIterator::next.
DecoderNext ==
  /\ LET r == CigarNext(chars) IN
       /\ chars' = r.rest
       /\ tokens' = IF r.item.tag = "None" THEN tokens
                    ELSE Append(tokens, r.item)
  /\ UNCHANGED <<cigar, vars, augmenterVars, expandVars, conversionVars>>

DecoderSpec == DecoderInit /\ [][DecoderNext]_decoderVars

\* ----------------------------------------------------------------- C15
\* A well-formed string: digits and operation codes only, each code preceded
\* by a digit, the string ending in a code (or empty).
WellFormed(s) ==
  /\ \A i \in 1..Len(s) : IsDigit(s[i]) \/ s[i] \in OpCodes
  /\ \A i \in 1..Len(s) : s[i] \in OpCodes => (i > 1 /\ IsDigit(s[i - 1]))
  /\ s # <<>> => s[Len(s)] \in OpCodes

\* The positions of the codes of s; the k-th token of s ends at the k-th of
\* them and starts after the one before.
CodePositions(s) == { i \in 1..Len(s) : s[i] \in OpCodes }
TokenEnd(s, k) ==
  IF k = 0 THEN 0
  ELSE CHOOSE i \in CodePositions(s) :
         Cardinality({ j \in CodePositions(s) : j < i }) = k - 1

\* The value of a decimal digit, and of a run of digits.
DecimalDigit ==
  "0" :> 0 @@ "1" :> 1 @@ "2" :> 2 @@ "3" :> 3 @@ "4" :> 4 @@ "5" :> 5
    @@ "6" :> 6 @@ "7" :> 7 @@ "8" :> 8 @@ "9" :> 9

RECURSIVE DecimalValue(_)
DecimalValue(ds) ==
  IF ds = <<>> THEN 0
  ELSE DecimalValue(SubSeq(ds, 1, Len(ds) - 1)) * 10 + DecimalDigit[ds[Len(ds)]]

\* The kind each code stands for.
KindOfCode ==
  "M" :> "Match" @@ "I" :> "Insertion" @@ "D" :> "Deletion" @@ "N" :> "Skip"
    @@ "S" :> "SoftClip" @@ "H" :> "HardClip" @@ "P" :> "Padding"
    @@ "=" :> "Equal" @@ "X" :> "Diff"

\* The k-th token of the well-formed string s, as the claim reads it.
TokenOf(s, k) ==
  TokOk(DecimalValue(SubSeq(s, TokenEnd(s, k - 1) + 1, TokenEnd(s, k) - 1)),
        KindOfCode[s[TokenEnd(s, k)]])

\* C15: for a well-formed string of n tokens (each a non-empty digit run and
\* one of M, I, D, N, S, H, P, =, X) the decoder yields exactly n Ok tokens in
\* input order and then end-of-sequence; each token's length is the decimal
\* value of its digit run and its kind the one the letter stands for.
C15_WellFormedDecodes ==
  WellFormed(cigar)
    => LET n == Cardinality(CodePositions(cigar)) IN
       /\ Len(tokens) <= n
       /\ \A k \in 1..Len(tokens) : tokens[k] = TokenOf(cigar, k)
       /\ chars = <<>>
            => (Len(tokens) = n /\ CigarNext(chars).item = TokNone)

\* The decoder has read a well-formed string of three tokens to its end, the
\* first of them with a count of two digits.
C15_Witness ==
  /\ WellFormed(cigar) /\ chars = <<>>
  /\ Len(tokens) = 3
  /\ tokens[1].length = 10
  /\ tokens[2].op # tokens[3].op

\* ----------------------------------------------------------------- C16
\* The number of digits chars starts with.
RECURSIVE DigitRun(_)
DigitRun(s) ==
  IF s # <<>> /\ IsDigit(Head(s)) THEN 1 + DigitRun(Tail(s)) ELSE 0

\* What the claim says a call returns when the token at the head of s is
\* malformed: "" when the token is well formed or s is empty.
ClaimedErrorKind(s) ==
  LET d == DigitRun(s) IN
  IF d = Len(s) THEN (IF d > 0 THEN "MissingOperation" ELSE "")
  ELSE IF s[d + 1] \in OpCodes THEN (IF d = 0 THEN "MissingCount" ELSE "")
  ELSE "InvalidCharacter"

\* C16: the decoder's error kind is MissingCount(c) if an operation letter c
\* is seen before any digit of the current token, MissingOperation(n) if the
\* string ends after a digit run of value n with no operation letter, and
\* InvalidCharacter(c) for any other unrecognized character c.
C16_ErrorKinds ==
  [][LET d == DigitRun(chars)
         k == ClaimedErrorKind(chars)
         t == CigarNext(chars).item
     IN  /\ k = "" => t.tag # "Err"
         /\ k = "MissingOperation"
              => t = TokErr(k, "", DecimalValue(SubSeq(chars, 1, d)))
         /\ k \in {"MissingCount", "InvalidCharacter"}
              => t = TokErr(k, chars[d + 1], 0)]_decoderVars

\* ----------------------------------------------------------------- C17
\* The latest item the decoder yielded is an error.
LastWasError == tokens # <<>> /\ tokens[Len(tokens)].tag = "Err"

\* A call that meets a malformed token yields one item, the error, and leaves
\* to the next call the characters after the offending one.
ErrorConsumesToken ==
  LET d == DigitRun(chars)
      t == CigarNext(chars).item
  IN  t.tag = "Err"
        => /\ tokens' = Append(tokens, t)
           /\ chars' = SubSeq(chars, d + 2, Len(chars))

\* After an error, a well-formed token at the head of the characters left is
\* decoded with a count of its own digits only.
FreshAfterError ==
  LET d == DigitRun(chars) IN
  (LastWasError /\ d > 0 /\ d < Len(chars) /\ chars[d + 1] \in OpCodes)
    => /\ tokens' = Append(tokens, TokOk(DecimalValue(SubSeq(chars, 1, d)),
                                         KindOfCode[chars[d + 1]]))
       /\ chars' = SubSeq(chars, d + 2, Len(chars))

\* C17: a malformed token yields exactly one error item and does not abort
\* decoding: the next call resumes at the character following the offending
\* one with a fresh count, so well-formed tokens after the error are decoded
\* correctly ("M5I" yields MissingCount('M') and then 5 Insertion).
C17_ResumesAfterError ==
  [][ErrorConsumesToken /\ FreshAfterError]_decoderVars

\* The decoder has read "M5I": MissingCount('M'), then 5 Insertion.
C17_Witness ==
  /\ cigar = <<"M", "5", "I">>
  /\ tokens = <<TokErr("MissingCount", "M", 0), TokOk(5, "Insertion")>>
  /\ chars = <<>>

\* ----------------------------------------------------------------- C18
\* The decoder has read the whole string.
Decoded == chars = <<>> /\ CigarNext(chars).item = TokNone

\* C18 as claimed: for any well-formed token string, decoding it and
\* rendering the tokens with cigar_string yields the original string.
C18_AsClaimed ==
  (WellFormed(cigar) /\ Decoded) => cigar_string(tokens) = cigar

\* No count of s is written with a leading zero: a digit run that starts with
\* 0 is the single digit 0.
NoLeadingZero(s) ==
  \A i \in 1..Len(s) :
    (s[i] = "0" /\ (i = 1 \/ ~IsDigit(s[i - 1])))
      => (i < Len(s) /\ ~IsDigit(s[i + 1]))

\* C18, amended: for any well-formed token string whose counts are written
\* without leading zeros, decoding it and rendering the tokens with
\* cigar_string yields the original string.
C18_RoundTrip ==
  (WellFormed(cigar) /\ NoLeadingZero(cigar) /\ Decoded)
    => cigar_string(tokens) = cigar

\* The decoder has read, to its end, a well-formed string without leading
\* zeros that has a count of two digits.
C18_Witness ==
  /\ WellFormed(cigar) /\ NoLeadingZero(cigar) /\ Decoded
  /\ Len(tokens) >= 1
  /\ \E k \in 1..Len(tokens) : tokens[k].length >= 10

\* -------------------------------------------------------------- expand.rs
\* What expand_cigar_operations returns: Ok(expanded), Err(e) with e the
\* decoder's error, or a panic (a slice out of range).
ExpandOk(elems) == [tag |-> "Ok", elems |-> elems, err |-> TokNone]
ExpandErr(t) == [tag |-> "Err", elems |-> <<>>, err |-> t]
ExpandPanic == [tag |-> "Panic", elems |-> <<>>, err |-> TokNone]
NotExpanded == [tag |-> "NotCalled", elems |-> <<>>, err |-> TokNone]

\* SplitMatch with the outcome of the comparison s == r reversed.
RECURSIVE SplitMatchReversed(_, _, _, _, _, _)
SplitMatchReversed(seq_slice, ref_slice, i, match_length, mismatch_length, out) ==
  IF i > Len(seq_slice)
  THEN LET a == IF match_length > 0
                THEN Append(out, TokOk(match_length, "Equal")) ELSE out
       IN  IF mismatch_length > 0
           THEN Append(a, TokOk(mismatch_length, "Diff")) ELSE a
  ELSE IF seq_slice[i] # ref_slice[i]
  THEN SplitMatchReversed(seq_slice, ref_slice, i + 1, match_length + 1, 0,
                  IF mismatch_length > 0
                  THEN Append(out, TokOk(mismatch_length, "Diff")) ELSE out)
  ELSE SplitMatchReversed(seq_slice, ref_slice, i + 1, 0, mismatch_length + 1,
                  IF match_length > 0
                  THEN Append(out, TokOk(match_length, "Equal")) ELSE out)

\* The for loop of the Match arm over seq_slice.iter().zip(ref_slice.iter()),
\* from pair i on, and the two pushes after it: the vector expanded.
RECURSIVE SplitMatch(_, _, _, _, _, _)
SplitMatch(seq_slice, ref_slice, i, match_length, mismatch_length, out) ==
  IF i > Len(seq_slice)
  THEN LET a == IF match_length > 0
                THEN Append(out, TokOk(match_length, "Equal")) ELSE out
       IN  IF mismatch_length > 0
           THEN Append(a, TokOk(mismatch_length, "Diff")) ELSE a
  ELSE IF seq_slice[i] = ref_slice[i]
  THEN SplitMatch(seq_slice, ref_slice, i + 1, match_length + 1, 0,
                  IF mismatch_length > 0
                  THEN Append(out, TokOk(mismatch_length, "Diff")) ELSE out)
  ELSE SplitMatch(seq_slice, ref_slice, i + 1, 0, mismatch_length + 1,
                  IF match_length > 0
                  THEN Append(out, TokOk(match_length, "Equal")) ELSE out)

\* ExpandAdvancesRead with the HardClip arm advancing the read cursor (the
\* line that expand.rs keeps as a comment).
ExpandAdvancesReadWithHardClip(op) ==
  op \in {"Insertion", "SoftClip", "HardClip", "Equal", "Diff"}

\* The match on elem.op of the arms other than Match: which cursors move.
ExpandAdvancesRead(op) == op \in {"Insertion", "SoftClip", "Equal", "Diff"}
ExpandAdvancesReference(op) ==
  op \in {"Deletion", "Skip", "Padding", "Equal", "Diff"}

\* for elem in CigarIterator::new(cigar) { .. } Ok(expanded), from the
\* characters chs on.
RECURSIVE ExpandLoop(_, _, _, _, _, _)
ExpandLoop(chs, reference_position, read_sequence_position, reference, seq, out) ==
  LET r == CigarNext(chs)
      elem == r.item
  IN  IF elem.tag = "None" THEN ExpandOk(out)
      ELSE IF elem.tag = "Err" THEN ExpandErr(elem)
      ELSE IF elem.op = "Match"
      THEN IF \/ read_sequence_position + elem.length > Len(seq)
              \/ reference_position + elem.length > Len(reference)
           THEN ExpandPanic
           ELSE ExpandLoop(r.rest,
                  reference_position + elem.length,
                  read_sequence_position + elem.length,
                  reference, seq,
                  SplitMatch(
                    SubSeq(seq, read_sequence_position + 1,
                           read_sequence_position + elem.length),
                    SubSeq(reference, reference_position + 1,
                           reference_position + elem.length),
                    1, 0, 0, out))
      ELSE ExpandLoop(r.rest,
             IF ExpandAdvancesReference(elem.op)
             THEN reference_position + elem.length ELSE reference_position,
             IF ExpandAdvancesRead(elem.op)
             THEN read_sequence_position + elem.length
             ELSE read_sequence_position,
             reference, seq, Append(out, elem))

expand_cigar_operations(reference_position, cigar_str, reference, seq) ==
  ExpandLoop(cigar_str, reference_position, 0, reference, seq, <<>>)

\* The longest reference and the longest read, in bytes.
MaxBytes == 3

\* The bytes, and the references and reads made of them.
Bases == {"A", "C"}
ByteStrings == UNION { [1..n -> Bases] : n \in 0..MaxBytes }

\* The operation strings: one or two pieces, a match of length 1 to 3, every
\* other kind with length 1, or a fragment that fails to decode.
ExpandPieces ==
  { <<d, "M">> : d \in {"1", "2", "3"} }
    \cup { <<"1", c>> : c \in (OpCodes \ {"M"}) \cup {"Z"} }
ExpandCigars ==
  { p \o q : p \in ExpandPieces, q \in ExpandPieces \cup {<<>>} }

\* The arguments of one call.
ExpandInit ==
  /\ args \in [reference_position : {0, 1}, cigar : ExpandCigars,
                reference : ByteStrings, seq : ByteStrings]
  /\ expanded = NotExpanded
  /\ input = <<>> /\ cursor = 0 /\ queue = EmptyBag /\ output = <<>>
  /\ last = NotCalled
  /\ DecoderUnused /\ AugmenterUnused /\ ConversionUnused

\* The call of expand_cigar_operations.
Expand ==
  /\ expanded = NotExpanded
  /\ expanded' = expand_cigar_operations(args.reference_position, args.cigar,
                                         args.reference, args.seq)
  /\ UNCHANGED <<args, vars, decoderVars, augmenterVars, conversionVars>>

ExpandSpec == ExpandInit /\ [][Expand]_expandVars

\* ----------------------------------------------------------------- C19
\* The call was given a single match token, "nM", and the byte ranges it
\* compares lie within the reference and the read.
SingleMatch ==
  /\ Len(args.cigar) = 2 /\ args.cigar[2] = "M"
  /\ args.reference_position + DecimalValue(<<args.cigar[1]>>)
       <= Len(args.reference)
  /\ DecimalValue(<<args.cigar[1]>>) <= Len(args.seq)

\* The positions of the match at which read and reference differ.
Mismatches ==
  { i \in 1..DecimalValue(<<args.cigar[1]>>) :
      args.seq[i] # args.reference[args.reference_position + i] }

\* The sum of the lengths of the tokens of elems whose kind is in kinds.
RECURSIVE LengthSum(_, _)
LengthSum(elems, kinds) ==
  IF elems = <<>> THEN 0
  ELSE (IF Head(elems).op \in kinds THEN Head(elems).length ELSE 0)
         + LengthSum(Tail(elems), kinds)

\* The kind of the token of elems that covers position i.
RECURSIVE KindAt(_, _)
KindAt(elems, i) ==
  IF i <= Head(elems).length THEN Head(elems).op
  ELSE KindAt(Tail(elems), i - Head(elems).length)

\* C19: on a single all-match token of length n, against equal-length
\* reference and read byte ranges that differ in exactly k positions,
\* expand_cigar_operations returns Equal and Diff tokens that strictly
\* alternate in kind, none of length zero, whose lengths sum to n, whose Diff
\* lengths sum to k, and position i is covered by a Diff token exactly when
\* read and reference differ at position i.
C19_MatchSplit ==
  (expanded # NotExpanded /\ SingleMatch)
    => LET n == DecimalValue(<<args.cigar[1]>>)
           es == expanded.elems
       IN  /\ expanded.tag = "Ok"
           /\ \A j \in 1..Len(es) :
                es[j].op \in {"Equal", "Diff"} /\ es[j].length > 0
           /\ \A j \in 1..(Len(es) - 1) : es[j].op # es[j + 1].op
           /\ LengthSum(es, {"Equal", "Diff"}) = n
           /\ LengthSum(es, {"Diff"}) = Cardinality(Mismatches)
           /\ \A i \in 1..n : (KindAt(es, i) = "Diff") <=> (i \in Mismatches)

\* A match of length 3 with one mismatch in the middle was split into three
\* tokens.
C19_Witness ==
  /\ expanded # NotExpanded /\ SingleMatch
  /\ Mismatches = {2}
  /\ expanded.elems = <<TokOk(1, "Equal"), TokOk(1, "Diff"), TokOk(1, "Equal")>>

\* ------------------------------------- the conversions of CigarOp (lib.rs)
\* The values of a u8.
U8 == 0..255

\* Two kinds a and b, and a byte v.
ConversionInit ==
  /\ operand \in [a : { CigarOps[i] : i \in 1..Len(CigarOps) },
                   b : { CigarOps[i] : i \in 1..Len(CigarOps) },
                   v : U8]
  /\ converted = <<>>
  /\ input = <<>> /\ cursor = 0 /\ queue = EmptyBag /\ output = <<>>
  /\ last = NotCalled
  /\ DecoderUnused /\ AugmenterUnused /\ ExpandUnused

\* a.cmp(&b), u8::from(a), u8::from(b), CigarOp::try_from(u8::from(a)) and
\* CigarOp::try_from(v).
Convert ==
  /\ converted = <<>>
  /\ converted' = [cmp |-> OpCmp(operand.a, operand.b),
                   a |-> U8From(operand.a),
                   b |-> U8From(operand.b),
                   back |-> TryFromU8(U8From(operand.a)),
                   tried |-> TryFromU8(operand.v)]
  /\ UNCHANGED <<operand, vars, decoderVars, augmenterVars, expandVars>>

ConversionSpec == ConversionInit /\ [][Convert]_conversionVars

\* ----------------------------------------------------------------- C20
\* The order of the kinds as the claim lists it, and the place of a kind in
\* it, counted from 0.
ClaimedOrder ==
  <<"Match", "Insertion", "Deletion", "Skip", "SoftClip", "HardClip",
    "Padding", "Equal", "Diff">>
PlaceOf(op) == (CHOOSE i \in 1..Len(ClaimedOrder) : ClaimedOrder[i] = op) - 1

\* C20: the total order on operation kinds is the declaration order Match <
\* Insertion < Deletion < Skip < SoftClip < HardClip < Padding < Equal < Diff;
\* it coincides with the numeric order of the u8 codes 0..8 given by
\* From<CigarOp> for u8, and TryFrom<u8> is the inverse of that conversion:
\* Ok(op) for the code of every kind op, Err(v) for every v > 8.
C20_KindOrderAndCodes ==
  converted # <<>>
    => /\ (converted.cmp = "Less") <=> (PlaceOf(operand.a) < PlaceOf(operand.b))
       /\ (converted.cmp = "Equal") <=> (operand.a = operand.b)
       /\ (converted.cmp = "Greater") <=> (PlaceOf(operand.a) > PlaceOf(operand.b))
       /\ converted.a = PlaceOf(operand.a)
       /\ converted.b = PlaceOf(operand.b)
       /\ (converted.cmp = "Less") <=> (converted.a < converted.b)
       /\ converted.back = TryOk(operand.a)
       /\ operand.v > 8 => converted.tried = TryErr(operand.v)
       /\ operand.v <= 8 => converted.tried = TryOk(ClaimedOrder[operand.v + 1])

\* HardClip was compared with Padding and found Less, with codes 5 and 6, and
\* the byte 255 was refused.
C20_Witness ==
  /\ converted # <<>>
  /\ operand.a = "HardClip" /\ operand.b = "Padding" /\ operand.v = 255
  /\ converted.cmp = "Less" /\ converted.a = 5 /\ converted.b = 6
  /\ converted.tried = TryErr(255)

\* ----------------------------------------------------------------- C21
\* a comes strictly before b in the record total order.
TotalLess(a, b) == TotalLeq(a, b) /\ KeyOf(a) # KeyOf(b)

\* The records of the source items next() has not consumed.
Unconsumed == RecordsFrom(input, cursor + 1)

\* No record of a source item not yet consumed is strictly smaller than the
\* record just yielded, and none has its grouping key.
YieldedBeforeUnconsumed ==
  last.tag = "Ok"
    => \A i \in 1..Len(Unconsumed) :
         /\ ~TotalLess(Unconsumed[i].elem, last.elem)
         /\ KeyOf(Unconsumed[i].elem) # KeyOf(last.elem)

\* C21 as stated, for sources that satisfy the external-source contract
\* (anchors non-decreasing within each chromosome_id, chromosome_ids
\* interleaved at will): whenever the Collator yields a record, no record
\* that a not-yet-consumed source item would produce is strictly smaller
\* than it in the record total order, and none is equal to it under the
\* grouping key.
C21_AsClaimed == ContractSorted(input) => YieldedBeforeUnconsumed

\* C21: for sources sorted by chromosome_id and then by anchor, whenever the
\* Collator yields a record, no record that a not-yet-consumed source item
\* would produce is strictly smaller than it in the record total order, and
\* none is equal to it under the grouping key.
C21_NothingSmallerUnconsumed == FullySorted(input) => YieldedBeforeUnconsumed

\* A record was yielded from a sorted source while a later item, which holds
\* records, was still in the source.
C21_Witness ==
  /\ FullySorted(input)
  /\ last.tag = "Ok"
  /\ Unconsumed # <<>>

\* ----------------------------------------------------------------- C22
\* The first record of a source item, as the Collator peeks it: AugNone when
\* the item is Err, holds no token, or fails at its first token.
FirstRecord(item) ==
  LET rs == ItemResults(item) IN
  IF rs # <<>> /\ rs[1].tag = "Ok" THEN rs[1] ELSE AugNone

\* Every record of the source items i..j, as a bag.
RECURSIVE RecordBag(_, _, _)
RecordBag(src, i, j) ==
  IF i > j THEN EmptyBag
  ELSE DrainInto(EmptyBag,
                 SelectSeq(ItemResults(src[i]), LAMBDA r : r.tag = "Ok")).queue
         (+) RecordBag(src, i + 1, j)

\* a is strictly smaller than b by (chromosome_id, reference_position).
StrictlyBefore(a, b) ==
  \/ a.chrom_id < b.chrom_id
  \/ a.chrom_id = b.chrom_id /\ a.reference_position < b.reference_position

\* The heap once the call has pushed every record of the items after the
\* cursor up to item k.
HeapThrough(k) == queue (+) RecordBag(input, cursor + 1, k)

\* Item k is one the call stops at: it has a first record and the heap's
\* minimum, as the heap stands when the item is peeked, is strictly smaller.
StopsAt(k) ==
  /\ k <= Len(input)
  /\ FirstRecord(input[k]).tag = "Ok"
  /\ \E existing \in HeapTops(HeapThrough(k - 1)) :
       StrictlyBefore(existing, FirstRecord(input[k]).elem)

\* Item k is one the call may consume: Err, or without a first record, or
\* the heap's minimum is not strictly smaller than its first record.
PassesAt(k) ==
  \/ FirstRecord(input[k]).tag # "Ok"
  \/ HeapThrough(k - 1) = EmptyBag
  \/ \E existing \in HeapTops(HeapThrough(k - 1)) :
       ~StrictlyBefore(existing, FirstRecord(input[k]).elem)

\* One call as the admission step describes it: the cursor passes only items
\* that were not refused, each with every record pushed; the pass ends at the
\* end of the source, at a refused item, or on returning a source error; then
\* at most one item is yielded, taken with its group from the heap so filled.
AdmissionStep ==
  /\ cursor' >= cursor
  /\ \A k \in (cursor + 1)..cursor' : PassesAt(k)
  /\ \A k \in (cursor + 1)..(cursor' - 1) : input[k].tag = "Ok"
  /\ IF last'.tag = "Err" /\ last'.kind = "External"
     THEN cursor' > cursor /\ input[cursor'].tag = "Err"
     ELSE cursor' = Len(input) \/ StopsAt(cursor' + 1)
  /\ Len(output') <= Len(output) + 1
  /\ IF last'.tag = "Ok"
     THEN /\ last'.elem \in HeapTops(HeapThrough(cursor'))
          /\ queue' (+) (last'.elem :> last'.count) = HeapThrough(cursor')
     ELSE queue' = HeapThrough(cursor')

\* C22: before consuming the next source item the Collator peeks its first
\* record; if the heap minimum is strictly smaller than that record by
\* (chromosome_id, reference_position) it stops admitting for this call and
\* examines no later source item; otherwise it pushes every record of that
\* item into the heap and advances the external cursor by exactly one item.
\* Each next() call performs at most one such admission pass followed by at
\* most one pop-and-group pass, and yields at most one item.
C22_AdmissionStep == [][AdmissionStep]_vars

\* The admission step on the calls that do not return a decode error.
AdmissionStepApartFromDecodeErrors ==
  [][(last'.tag = "Err" => last'.kind = "External") => AdmissionStep]_vars

\* ----------------------------------------------------------------- C23
\* C23: the Collator returns end-of-sequence only in a state where the
\* external source is exhausted and the heap is empty (never while an
\* admitted record is still in the heap or a source item is still unread),
\* and once it has returned end-of-sequence every later call returns
\* end-of-sequence with the state unchanged.
C23_EndOnlyWhenDone ==
  Drained
    => /\ cursor = Len(input)
       /\ queue = EmptyBag
       /\ NextOutcomes(input, cursor, queue)
            = {[cursor |-> cursor, queue |-> queue, ret |-> RetNone]}

\* next() returned None after a source of three items, one of them Err, had
\* given at least one record.
C23_Witness ==
  /\ Drained
  /\ Len(input) = 3
  /\ \E i \in 1..Len(input) : input[i].tag = "Err"
  /\ \E i \in 1..Len(output) : output[i].tag = "Ok"

\* ----------------------------------------------------------------- C24
\* The records the Augmenter has emitted, without the errors.
EmittedRecords == SelectSeq(records, LAMBDA r : r.tag = "Ok")

\* C24: within one Augmenter stream the records' reference_position is
\* non-decreasing in emission order and the first record's
\* reference_position equals the anchor, so the first record of a stream is
\* a lower bound, by (chromosome_id, reference_position), on every record
\* the stream produces.
C24_FirstRecordLowerBound ==
  LET rs == EmittedRecords IN
  /\ \A i \in 1..(Len(rs) - 1) :
       rs[i].elem.reference_position <= rs[i + 1].elem.reference_position
  /\ rs # <<>> => rs[1].elem.reference_position = anchor.reference_position
  /\ \A i \in 1..Len(rs) :
       /\ rs[i].elem.chrom_id = anchor.chrom_id
       /\ ~StrictlyBefore(rs[i].elem, rs[1].elem)

\* An Augmenter anchored at 5 has emitted a deletion of length 2 at 5 and
\* then a record at 7.
C24_Witness ==
  /\ anchor # <<>> /\ anchor.reference_position = 5
  /\ Len(EmittedRecords) = 2
  /\ EmittedRecords[1].elem.op = "Deletion"
  /\ EmittedRecords[1].elem.length = 2
  /\ EmittedRecords[1].elem.reference_position = 5
  /\ EmittedRecords[2].elem.reference_position = 7

\* ----------------------------------------------------------------- C25
\* One call that yields, as the grouping step describes it, with same(a, b)
\* for "a and b are equal for grouping": the item is a minimum of the heap
\* as the admission pass left it, the records taken from the heap are count
\* records equal to it, and the grouping went on for as long as the heap's
\* top was equal to it.
GroupingStepBy(same(_, _)) ==
  last'.tag = "Ok"
    => LET filled == HeapThrough(cursor')
           removed == filled (-) queue'
       IN  /\ last'.elem \in HeapTops(filled)
           /\ queue' (+) removed = filled
           /\ BagCardinality(removed) = last'.count
           /\ \A r \in BagToSet(removed) : same(r, last'.elem)
           /\ \/ queue' = EmptyBag
              \/ \E next \in HeapTops(queue') : ~same(next, last'.elem)

\* C25: the item yielded by a call is the heap minimum, and its count is 1
\* plus the number of records that were popped immediately after it because
\* they were equal to it under the full grouping key (chromosome_id,
\* reference_position, kind, length); all records so counted are removed
\* from the heap and no other record is removed by that call.
C25_GroupingStep ==
  [][GroupingStepBy(LAMBDA a, b : KeyOf(a) = KeyOf(b))]_vars

\* The grouping step with the equality the code groups by.
GroupingStepByDerivedEq == [][GroupingStepBy(ElemEq)]_vars

\* ----------------------------------------------------------------- C26
\* A call that finds a digit run followed by a character that is neither a
\* digit nor an operation code yields one item, InvalidCharacter of that
\* character, and leaves the characters after it: the run and the character
\* are both consumed.
InvalidCharacterStep ==
  LET d == DigitRun(chars) IN
  (d > 0 /\ d < Len(chars) /\ chars[d + 1] \notin OpCodes)
    => /\ tokens' = Append(tokens, TokErr("InvalidCharacter", chars[d + 1], 0))
       /\ chars' = SubSeq(chars, d + 2, Len(chars))

\* A call that yields an item leaves fewer characters than it found.
ItemShortens == tokens' # tokens => Len(chars') < Len(chars)

\* The decoder has yielded at most one item per character it has read.
ItemsWithinCharacters == Len(tokens) <= Len(cigar) - Len(chars)

\* With no character left, a call yields nothing and leaves none.
EndIsFinal ==
  chars = <<>> => CigarNext(chars) = [item |-> TokNone, rest |-> <<>>]

\* C26: an unrecognized character that follows a digit run yields exactly
\* one InvalidCharacter item that consumes both the digit run and the
\* character (no MissingOperation item is produced for the discarded count);
\* once the end of the string is reached the decoder yields no further items
\* on any later call; the decoder always terminates, yielding at most one
\* item per input character.
C26_InvalidCharacterOnce ==
  /\ [][InvalidCharacterStep /\ ItemShortens]_decoderVars
  /\ [](ItemsWithinCharacters /\ EndIsFinal)

\* The decoder has read "2M1Z" to its end: Match(2), then
\* InvalidCharacter('Z'), and nothing else.
C26_Witness ==
  /\ cigar = <<"2", "M", "1", "Z">>
  /\ tokens = <<TokOk(2, "Match"), TokErr("InvalidCharacter", "Z", 0)>>
  /\ chars = <<>>

\* ----------------------------------------------------------------- C27
\* es is toks with every Match token replaced by Equal and Diff tokens whose
\* lengths add up to its length, and every other token kept as it is, in
\* its place.
RECURSIVE PassedThrough(_, _)
PassedThrough(toks, es) ==
  IF toks = <<>> THEN es = <<>>
  ELSE IF Head(toks).op # "Match"
  THEN es # <<>> /\ Head(es) = Head(toks) /\ PassedThrough(Tail(toks), Tail(es))
  ELSE \E k \in 0..Len(es) :
         /\ \A j \in 1..k : es[j].op \in {"Equal", "Diff"}
         /\ LengthSum(SubSeq(es, 1, k), {"Equal", "Diff"}) = Head(toks).length
         /\ PassedThrough(Tail(toks), SubSeq(es, k + 1, Len(es)))

\* The call was given "1H" and "nM", in the order first, second, and the
\* read holds n bytes and the reference n bytes from reference_position on.
ClipAndMatch(first, second) ==
  /\ Len(args.cigar) = 4
  /\ <<args.cigar[2 * first - 1], args.cigar[2 * first]>> = <<"1", "H">>
  /\ args.cigar[2 * second] = "M"
  /\ LET n == DecimalValue(<<args.cigar[2 * second - 1]>>) IN
       /\ n <= Len(args.seq)
       /\ args.reference_position + n <= Len(args.reference)

\* C27: expand_cigar_operations passes every non-match token (I, D, N, S, H,
\* P, =, X) through unchanged and in its original position relative to the
\* rewritten match tokens, and a hard-clip token does not advance the read
\* cursor: for "kH nM" the match is compared against read bytes starting at
\* read offset 0, and for "nM kH" the trailing hard clip requires no read
\* bytes beyond n.
C27_NonMatchPassThrough ==
  /\ expanded.tag = "Ok"
       => PassedThrough(CigarCollect(args.cigar), expanded.elems)
  /\ (expanded # NotExpanded /\ ClipAndMatch(1, 2))
       => /\ expanded.tag = "Ok"
          /\ Head(expanded.elems) = TokOk(1, "HardClip")
          /\ \A i \in 1..DecimalValue(<<args.cigar[3]>>) :
               (KindAt(Tail(expanded.elems), i) = "Diff")
                 <=> (args.seq[i] # args.reference[args.reference_position + i])
  /\ (expanded # NotExpanded /\ ClipAndMatch(2, 1))
       => /\ expanded.tag = "Ok"
          /\ expanded.elems[Len(expanded.elems)] = TokOk(1, "HardClip")

\* "1H2M" over a read of exactly two bytes, the second a mismatch: the hard
\* clip came through first and the match was split from read offset 0.
C27_Witness ==
  /\ args.cigar = <<"1", "H", "2", "M">>
  /\ args.seq = <<"A", "C">>
  /\ args.reference = <<"A", "A">>
  /\ expanded.tag = "Ok"
  /\ expanded.elems
       = <<TokOk(1, "HardClip"), TokOk(1, "Equal"), TokOk(1, "Diff")>>

====
